---- MODULE Spec2Model ----
(***************************************************************************)
(* Session registry and relay coordinator of src/main.py (FastAPI app):    *)
(* the JSON store with its exclusion lists, the ConnectionManager          *)
(* registry, the two websocket handlers and the HTTP endpoints.            *)
(*                                                                         *)
(* The program runs on one asyncio event loop.  A coroutine runs without   *)
(* interruption from one `await` to the next, so every action below is the *)
(* code of one handler between two consecutive awaits.  The awaits are the *)
(* websocket accept / send / receive / close calls and the enrichment      *)
(* request; load_db and save_db are synchronous.                           *)
(***************************************************************************)
EXTENDS Integers, Sequences, FiniteSets, TLC

VARIABLES db, admins, clients, ws, task, adm

vars == <<db, admins, clients, ws, task, adm>>

-----------------------------------------------------------------------------
(* Bounds of the model *)

MaxClients == 2     \* client websocket connections ever opened
MaxAdmins == 3      \* admin websocket connections ever opened
MaxBans == 1        \* POST /v1/admin/ban requests ever issued
MaxAudits == 1      \* POST /v1/audit requests ever issued
MaxEvents == 1      \* inbound messages per client connection
MaxSms == 1         \* POST /v1/sms-submit requests ever issued
MaxRedirects == 1   \* POST /v1/admin/redirect requests ever issued

(* Program constants *)

BanCloseCode == 4003     \* close(code=4003) in ban_endpoint
NormalCloseCode == 1000  \* websocket.close() default code in ws_client

Ids == {"c1", "c2"}       \* client identities (path parameter client_id)
Ips == {"ip1", "ip2"}     \* network origins (websocket.client.host)
None == "None"            \* Python None (an omitted optional parameter)

ClientHandles == 1..MaxClients
AdminHandles == (MaxClients + 1)..(MaxClients + MaxAdmins)
Handles == ClientHandles \cup AdminHandles
BanIds == (MaxClients + MaxAdmins + 1)..(MaxClients + MaxAdmins + MaxBans)
AuditIds ==
  (MaxClients + MaxAdmins + MaxBans + 1)..(MaxClients + MaxAdmins + MaxBans + MaxAudits)
SmsIds ==
  (MaxClients + MaxAdmins + MaxBans + MaxAudits + 1)
    ..(MaxClients + MaxAdmins + MaxBans + MaxAudits + MaxSms)
RedirectIds ==
  (MaxClients + MaxAdmins + MaxBans + MaxAudits + MaxSms + 1)
    ..(MaxClients + MaxAdmins + MaxBans + MaxAudits + MaxSms + MaxRedirects)
\* the latest direct call of ban_client / unban_client (they never suspend)
CallId == MaxClients + MaxAdmins + MaxBans + MaxAudits + MaxSms + MaxRedirects + 1
Tasks ==
  ClientHandles \cup BanIds \cup AuditIds \cup SmsIds \cup RedirectIds \cup {CallId}

-----------------------------------------------------------------------------
(* Finite sequences helpers *)

Range(s) == {s[k] : k \in 1..Len(s)}

Contains(s, x) == \E k \in 1..Len(s) : s[k] = x

\* list.remove(x): removes the first occurrence
Remove(s, x) ==
  IF ~Contains(s, x) THEN s
  ELSE LET p == CHOOSE k \in 1..Len(s) : s[k] = x /\ \A j \in 1..(k - 1) : s[j] # x
       IN  SubSeq(s, 1, p - 1) \o SubSeq(s, p + 1, Len(s))

Count(s, x) == Cardinality({k \in 1..Len(s) : s[k] = x})

-----------------------------------------------------------------------------
(* Persistence: db is the content of database.json *)

\* load_db L47: what is returned when the file is missing or unreadable
DefaultDb == [payments |-> <<>>, sms |-> <<>>, banned_ips |-> <<>>, banned_ids |-> <<>>]

\* faulty variant: the file is never read back, the default is returned
load_db_default == DefaultDb

load_db == db

\* save_db L57 raises: open() failed and the file is as it was, or the file
\* was truncated by open(.., "w") and json.dump did not complete, and
\* load_db answers its default from then on
FailedWrite == {db, DefaultDb}

\* faulty variant: the identity list is not consulted
is_banned_ips_only(client_id, ip) ==
  LET d == load_db
  IN  Contains(d.banned_ips, ip)

\* faulty variant: the origin list is not consulted
is_banned_ids_only(client_id, ip) ==
  LET d == load_db
  IN  Contains(d.banned_ids, client_id)

is_banned(client_id, ip) ==
  LET d == load_db
  IN  Contains(d.banned_ids, client_id) \/ Contains(d.banned_ips, ip)

\* faulty variant: appended without the membership test
ban_client_dup(client_id, ip) ==
  LET d0 == load_db
      d1 == IF client_id # None
            THEN [d0 EXCEPT !.banned_ids = Append(@, client_id)] ELSE d0
      d2 == IF ip # None
            THEN [d1 EXCEPT !.banned_ips = Append(@, ip)] ELSE d1
  IN  d2

\* faulty variant: the origin is ignored
ban_client_no_origin(client_id, ip) ==
  LET d0 == load_db
  IN  IF client_id # None /\ ~Contains(d0.banned_ids, client_id)
      THEN [d0 EXCEPT !.banned_ids = Append(@, client_id)] ELSE d0

ban_client(client_id, ip) ==
  LET d0 == load_db
      d1 == IF client_id # None /\ ~Contains(d0.banned_ids, client_id)
            THEN [d0 EXCEPT !.banned_ids = Append(@, client_id)] ELSE d0
      d2 == IF ip # None /\ ~Contains(d1.banned_ips, ip)
            THEN [d1 EXCEPT !.banned_ips = Append(@, ip)] ELSE d1
  IN  d2

unban_client(client_id, ip) ==
  LET d0 == load_db
      d1 == IF client_id # None /\ Contains(d0.banned_ids, client_id)
            THEN [d0 EXCEPT !.banned_ids = Remove(@, client_id)] ELSE d0
      d2 == IF ip # None /\ Contains(d1.banned_ips, ip)
            THEN [d1 EXCEPT !.banned_ips = Remove(@, ip)] ELSE d1
  IN  d2

-----------------------------------------------------------------------------
(* Messages *)

BannedMsg == [type |-> "BANNED", redirect |-> "https://www.facebook.com"]

StatusMsg(client_id, status) ==
  [type |-> "CLIENT_STATUS", client_id |-> client_id, status |-> status]

EventMsg(client_id, data) ==
  [type |-> "CLIENT_EVENT", client_id |-> client_id,
   event |-> data.event, data |-> data.data]

-----------------------------------------------------------------------------
(* Websocket handles: state, the messages sent to the peer, close code *)

NewSocket == [state |-> "new", out |-> <<>>, code |-> 0, by |-> "none"]

\* websocket.accept()
Accept(w, h) == [w EXCEPT ![h].state = "open"]

\* websocket.send_json(m): fails (raises) on a connection that is closed
SendOk(w, h) == w[h].state = "open"

SendJson(w, h, m) ==
  IF SendOk(w, h) THEN [w EXCEPT ![h].out = Append(@, m)] ELSE w

\* websocket.close(code)
Close(w, h, code) ==
  IF w[h].state = "open"
  THEN [w EXCEPT ![h].state = "closed", ![h].code = code, ![h].by = "server"]
  ELSE w

-----------------------------------------------------------------------------
(* ConnectionManager: admins is a list, clients a dict kept as a set of    *)
(* <<client_id, websocket>> items                                          *)

HasClient(c, client_id) == \E p \in c : p[1] = client_id

GetClient(c, client_id) == (CHOOSE p \in c : p[1] = client_id)[2]

\* faulty variant: an existing entry is kept (dict.setdefault)
connect_client_keep(c, client_id, websocket) ==
  IF HasClient(c, client_id) THEN c ELSE c \cup {<<client_id, websocket>>}

connect_client(c, client_id, websocket) ==
  {p \in c : p[1] # client_id} \cup {<<client_id, websocket>>}

disconnect_client(c, client_id) ==
  IF HasClient(c, client_id) THEN {p \in c : p[1] # client_id} ELSE c

connect_admin(a, websocket) == Append(a, websocket)

disconnect_admin(a, websocket) ==
  IF Contains(a, websocket) THEN Remove(a, websocket) ELSE a

\* faulty variant: the message goes to every registered client
send_to_client_all(w, c, client_id, m) ==
  [h \in DOMAIN w |->
     IF (\E q \in c : q[2] = h) /\ SendOk(w, h)
     THEN [w[h] EXCEPT !.out = Append(@, m)] ELSE w[h]]

\* faulty variant: an unknown id falls back on some registered client
send_to_client_fallback(w, c, client_id, m) ==
  IF HasClient(c, client_id) THEN SendJson(w, GetClient(c, client_id), m)
  ELSE IF c # {} THEN SendJson(w, (CHOOSE q \in c : TRUE)[2], m)
  ELSE w

\* send_to_client: the send is skipped for an unknown id, a failure is swallowed
send_to_client(w, c, client_id, m) ==
  IF HasClient(c, client_id) THEN SendJson(w, GetClient(c, client_id), m) ELSE w

-----------------------------------------------------------------------------
(* Tasks: one per client websocket handler and per HTTP request.  pc is    *)
(* the await the coroutine is suspended in; id, ip, addr, enr, n are its   *)
(* locals (addr the adresse_ip field of an audit request, enr whether the  *)
(* enrichment answered, n the number of the last inbound message); i is    *)
(* the position of the list iterator of the broadcast it is in.  snap,     *)
(* sent, fail, pre, reg, wit, offs and tgt are history: the admin list     *)
(* when the broadcast in progress started, the handles its sends reached   *)
(* and failed on, whether the identity was banned when the attempt         *)
(* started, the order of registration, the admins registered at that       *)
(* moment (for a ban: the client handles registered when it was issued,    *)
(* and in n the inbound messages taken until then),                        *)
(* the runs of the disconnect handling, and the handle registered under    *)
(* the identity when a ban was issued.                                     *)

IdleTask ==
  [pc |-> "idle", id |-> None, ip |-> None, addr |-> None, otp |-> None,
   enr |-> FALSE, i |-> 0,
   snap |-> <<>>, sent |-> <<>>, fail |-> {}, n |-> 0,
   pre |-> FALSE, reg |-> 0, wit |-> {}, offs |-> 0, tgt |-> 0, res |-> "none"]

Init ==
  /\ db = DefaultDb
  /\ admins = <<>>
  /\ clients = {}
  /\ ws = [h \in Handles |-> NewSocket]
  /\ task = [t \in Tasks |-> IdleTask]
  /\ adm = [a \in AdminHandles |-> "idle"]

\* faulty variant: the exception of save_db is swallowed and the handler goes on
WriteFailure_swallowed(t) == [t EXCEPT !.res = "io_error"]

\* the exception of save_db leaves the handler: the request fails
WriteFailure(t) == [t EXCEPT !.pc = "done", !.res = "io_error"]

\* connections and requests are numbered in the order they arrive
NextIdle(S, t) == task[t].pc = "idle" /\ \A u \in S : u < t => task[u].pc # "idle"

\* history: how many inbound messages the client handlers have taken so far
Received == Cardinality({x \in ClientHandles \X (1..MaxEvents) : x[2] <= task[x[1]].n})

\* history: how many connections have been registered so far
Registrations == Cardinality({h \in ClientHandles : task[h].reg > 0})

-----------------------------------------------------------------------------
(* broadcast_to_admins.  `for connection in self.admins` keeps an index    *)
(* into the live list: each turn takes self.admins[i] while                *)
(* i < len(self.admins), whatever was appended or removed while the        *)
(* previous send was suspended.  A send that raises is skipped at once     *)
(* (except: continue); a send that goes through is an await.               *)

BcPcs == {"bc_online", "bc_event", "bc_offline", "bc_payment", "bc_sms"}

\* the inbound message number n of a connection (receive_json's result)
Inbound(n) == [event |-> n, data |-> "d"]

\* create_audit L160-161: data = request.dict(); data['adresse_ip'] = ip
\* (of the request's fields the identity and the claimed address are kept)
RequestDict(t) == [client_id |-> t.id, adresse_ip |-> t.addr]

AuditData(t) == [RequestDict(t) EXCEPT !.adresse_ip = t.ip]

\* create_audit L167-177: the enrichment fields when the lookup answered
\* with 200, then the status (the timestamp is left out)
PaymentRecord(t) ==
  IF t.enr
  THEN [client_id |-> AuditData(t).client_id, adresse_ip |-> AuditData(t).adresse_ip,
        bank_name |-> "Unknown", card_type |-> "N/A", country |-> "N/A",
        status |-> "pending"]
  ELSE [client_id |-> AuditData(t).client_id, adresse_ip |-> AuditData(t).adresse_ip,
        status |-> "pending"]

PaymentMsg(data) == [type |-> "NEW_PAYMENT", data |-> data]

\* submit_sms L186 (the timestamp, a fresh uuid, is left out)
SmsRecord(t) == [client_id |-> t.id, otp |-> t.otp]

SmsMsg(t) == [type |-> "NEW_SMS", client_id |-> t.id, otp |-> t.otp]

\* the `message` argument of the broadcast a task is in
Message(t) ==
  CASE t.pc = "bc_online" -> StatusMsg(t.id, "online")
    [] t.pc = "bc_payment" -> PaymentMsg(PaymentRecord(t))
    [] t.pc = "bc_offline" -> StatusMsg(t.id, "offline")
    [] t.pc = "bc_event" -> EventMsg(t.id, Inbound(t.n))
    [] t.pc = "bc_sms" -> SmsMsg(t)

\* faulty variant: the except clause sits inside the receive loop
AfterBroadcast_loop(pc) ==
  IF pc \in {"bc_online", "bc_event", "bc_offline"} THEN "recv" ELSE "done"

\* where the caller goes on when the broadcast returns
AfterBroadcast(pc) ==
  IF pc \in {"bc_online", "bc_event"} THEN "recv" ELSE "done"

\* what the endpoint returns after its broadcast
BroadcastResult(t) ==
  CASE t.pc = "bc_payment" -> "PENDING"
    [] t.pc = "bc_sms" -> "success"
    [] OTHER -> t.res

\* entering broadcast_to_admins(message): the list iterator starts at 0
StartBroadcast(t, pc) ==
  [t EXCEPT !.pc = pc, !.i = 0, !.snap = admins, !.sent = <<>>, !.fail = {}]

\* the list the loop iterates over
IterList(t) == admins

\* the first position after i whose send goes through, 0 when there is none
NextOpen(w, lst, i) ==
  IF \E j \in (i + 1)..Len(lst) : SendOk(w, lst[j])
  THEN CHOOSE j \in (i + 1)..Len(lst) :
         SendOk(w, lst[j]) /\ \A k \in (i + 1)..(j - 1) : ~SendOk(w, lst[k])
  ELSE 0

\* the loop from position t.i up to its next await or its end: the task
\* and the sockets afterwards
Fanout(t, w) ==
  LET lst == IterList(t)
      j == NextOpen(w, lst, t.i)
  IN  IF j # 0
      THEN [task |-> [t EXCEPT !.i = j, !.sent = Append(@, lst[j]),
                         !.fail = @ \cup {lst[k] : k \in (t.i + 1)..(j - 1)}],
            ws |-> SendJson(w, lst[j], Message(t))]
      ELSE [task |-> [t EXCEPT !.pc = AfterBroadcast(t.pc),
                         !.res = BroadcastResult(t),
                         !.i = 0, !.snap = <<>>, !.sent = <<>>, !.fail = {}],
            ws |-> w]

\* a task suspended in a send of its broadcast is resumed
BroadcastStep(t) ==
  /\ task[t].pc \in BcPcs
  /\ task' = [task EXCEPT ![t] = Fanout(task[t], ws).task]
  /\ ws' = Fanout(task[t], ws).ws
  /\ UNCHANGED <<db, admins, clients, adm>>

-----------------------------------------------------------------------------
(* ws_client: the handler of one client websocket connection h *)

\* L222-223: a connection arrives; the exclusion check is made before accept
ClientStart(h, client_id, ip) ==
  /\ NextIdle(ClientHandles, h)
  /\ task' = [task EXCEPT ![h] =
       [@ EXCEPT !.pc = IF is_banned(client_id, ip) THEN "rej_accept" ELSE "accept",
                 !.pre = Contains(db.banned_ids, client_id),
                 !.id = client_id, !.ip = ip]]
  /\ UNCHANGED <<db, admins, clients, ws, adm>>

\* L224: await websocket.accept()
ClientRejectAccept(h) ==
  /\ task[h].pc = "rej_accept"
  /\ ws' = Accept(ws, h)
  /\ task' = [task EXCEPT ![h].pc = "rej_send"]
  /\ UNCHANGED <<db, admins, clients, adm>>

\* L225: await websocket.send_json(BANNED)
ClientRejectSend(h) ==
  /\ task[h].pc = "rej_send"
  /\ ws' = SendJson(ws, h, BannedMsg)
  /\ task' = [task EXCEPT ![h].pc = "rej_close"]
  /\ UNCHANGED <<db, admins, clients, adm>>

\* faulty variant: the rejection also runs the disconnect handling
ClientRejectClose_unregister(h) ==
  /\ task[h].pc = "rej_close"
  /\ ws' = Close(ws, h, NormalCloseCode)
  /\ clients' = disconnect_client(clients, task[h].id)
  /\ task' = [task EXCEPT ![h].pc = "done"]
  /\ UNCHANGED <<db, admins, adm>>

\* L226-227: await websocket.close(); return
ClientRejectClose(h) ==
  /\ task[h].pc = "rej_close"
  /\ ws' = Close(ws, h, NormalCloseCode)
  /\ task' = [task EXCEPT ![h].pc = "done"]
  /\ UNCHANGED <<db, admins, clients, adm>>

\* L229-231: connect_client resumes after accept and registers; the online
\* status is broadcast
ClientRegister(h) ==
  /\ task[h].pc = "accept"
  /\ clients' = connect_client(clients, task[h].id, h)
  /\ LET t == [StartBroadcast(task[h], "bc_online")
                 EXCEPT !.reg = Registrations + 1, !.wit = Range(admins)]
         f == Fanout(t, Accept(ws, h))
     IN  task' = [task EXCEPT ![h] = f.task] /\ ws' = f.ws
  /\ UNCHANGED <<db, admins, adm>>

\* L233-235: receive_json returns the next inbound message; it is relayed
ClientReceive(h) ==
  /\ task[h].pc = "recv"
  /\ ws[h].state = "open"
  /\ task[h].n < MaxEvents
  /\ LET t == [StartBroadcast(task[h], "bc_event") EXCEPT !.n = task[h].n + 1]
         f == Fanout(t, ws)
     IN  task' = [task EXCEPT ![h] = f.task] /\ ws' = f.ws
  /\ UNCHANGED <<db, admins, clients, adm>>

\* L233-235, L236-238: the inbound message is not a JSON object, so that
\* receive_json or data.get raises with the connection still up; the bare
\* except clause handles it like a disconnect
ClientReceiveInvalid(h) ==
  /\ task[h].pc = "recv"
  /\ ws[h].state = "open"
  /\ clients' = disconnect_client(clients, task[h].id)
  /\ LET t == [StartBroadcast(task[h], "bc_offline") EXCEPT !.offs = task[h].offs + 1]
         f == Fanout(t, ws)
     IN  task' = [task EXCEPT ![h] = f.task] /\ ws' = f.ws
  /\ UNCHANGED <<db, admins, adm>>

\* L236-238: receive_json raises on a closed connection; the except clause
\* unregisters the identity and broadcasts the offline status
ClientDisconnect(h) ==
  /\ task[h].pc = "recv"
  /\ ws[h].state = "closed"
  /\ clients' = disconnect_client(clients, task[h].id)
  /\ LET t == [StartBroadcast(task[h], "bc_offline") EXCEPT !.offs = task[h].offs + 1]
         f == Fanout(t, ws)
     IN  task' = [task EXCEPT ![h] = f.task] /\ ws' = f.ws
  /\ UNCHANGED <<db, admins, adm>>

-----------------------------------------------------------------------------
(* ws_admin: the handler of one admin websocket connection a *)

\* L215: connect_admin accepts and appends
AdminConnect(a) ==
  /\ adm[a] = "idle"
  /\ \A b \in AdminHandles : b < a => adm[b] # "idle"
  /\ ws' = Accept(ws, a)
  /\ admins' = connect_admin(admins, a)
  /\ adm' = [adm EXCEPT ![a] = "recv"]
  /\ UNCHANGED <<db, clients, task>>

\* L217-218: receive_text raises WebSocketDisconnect
AdminDisconnect(a) ==
  /\ adm[a] = "recv"
  /\ ws[a].state = "closed"
  /\ admins' = disconnect_admin(admins, a)
  /\ adm' = [adm EXCEPT ![a] = "done"]
  /\ UNCHANGED <<db, clients, ws, task>>

-----------------------------------------------------------------------------
(* The peer of an established connection closes it or its transport fails. *)
(* A connection is taken to stay up until its handshake is complete, and   *)
(* one being turned away (L224-226) for the three calls of the rejection.  *)

PeerClose(h) ==
  /\ ws[h].state = "open"
  /\ h \in ClientHandles => task[h].pc \in {"bc_online", "recv", "bc_event"}
  /\ ws' = [ws EXCEPT ![h].state = "closed", ![h].by = "peer"]
  /\ UNCHANGED <<db, admins, clients, task, adm>>

-----------------------------------------------------------------------------
(* POST /v1/admin/ban *)

\* L201-205: ban_client, then the BANNED unicast.  send_to_client awaits
\* only when the identity has a registry entry; without one, and when no
\* identity is given, the endpoint runs to its return without suspending
BanStart(r, client_id, ip) ==
  /\ NextIdle(BanIds, r)
  /\ db' = ban_client(client_id, ip)
  /\ ws' = IF client_id # None
           THEN send_to_client(ws, clients, client_id, BannedMsg) ELSE ws
  /\ task' = [task EXCEPT ![r] =
       IF client_id # None /\ HasClient(clients, client_id)
       THEN [@ EXCEPT !.pc = "ban_close", !.id = client_id, !.ip = ip,
                      !.wit = {q[2] : q \in clients}, !.n = Received,
                      !.tgt = GetClient(clients, client_id)]
       ELSE [@ EXCEPT !.pc = "done", !.id = client_id, !.ip = ip,
                      !.wit = {q[2] : q \in clients}, !.n = Received,
                      !.res = "banned"]]
  /\ UNCHANGED <<admins, clients, adm>>

\* what close() does on a connection that is already closed depends on the
\* websocket library: it returns or it raises, and the request fails
BanResults(r) ==
  IF HasClient(clients, task[r].id) /\ ~SendOk(ws, GetClient(clients, task[r].id))
  THEN {"banned", "error"}
  ELSE {"banned"}

\* L204-205: the registry is read again after the send; close and return
BanClose(r) ==
  /\ task[r].pc = "ban_close"
  /\ ws' = IF HasClient(clients, task[r].id)
           THEN Close(ws, GetClient(clients, task[r].id), BanCloseCode)
           ELSE ws
  /\ \E res \in BanResults(r) :
       task' = [task EXCEPT ![r].pc = "done", ![r].res = res]
  /\ UNCHANGED <<db, admins, clients, adm>>

\* L201, L67: save_db raises in ban_client
BanWriteFails(r, client_id, ip) ==
  /\ NextIdle(BanIds, r)
  /\ db' \in FailedWrite
  /\ task' = [task EXCEPT ![r] = WriteFailure([@ EXCEPT !.id = client_id, !.ip = ip])]
  /\ UNCHANGED <<admins, clients, ws, adm>>

-----------------------------------------------------------------------------
(* POST /v1/audit *)

\* L157-161: the exclusion check on the observed origin
AuditStart(r, client_id, addr, ip) ==
  /\ NextIdle(AuditIds, r)
  /\ task' = [task EXCEPT ![r] =
       IF is_banned(client_id, ip)
       THEN [@ EXCEPT !.pc = "done", !.res = "403",
                      !.id = client_id, !.addr = addr, !.ip = ip]
       ELSE [@ EXCEPT !.pc = "enrich",
                      !.id = client_id, !.addr = addr, !.ip = ip]]
  /\ UNCHANGED <<db, admins, clients, ws, adm>>

\* L164-180: the lookup has answered (ok) or failed; the record is appended
\* and saved, and NEW_PAYMENT is broadcast
AuditEnrich(r, ok) ==
  /\ task[r].pc = "enrich"
  /\ LET t == [StartBroadcast(task[r], "bc_payment") EXCEPT !.enr = ok]
         f == Fanout(t, ws)
     IN  /\ db' = [load_db EXCEPT !.payments = Append(@, PaymentRecord(t))]
         /\ task' = [task EXCEPT ![r] = f.task]
         /\ ws' = f.ws
  /\ UNCHANGED <<admins, clients, adm>>

\* L174-178: save_db raises
AuditWriteFails(r) ==
  /\ task[r].pc = "enrich"
  /\ db' \in FailedWrite
  /\ task' = [task EXCEPT ![r] = WriteFailure(@)]
  /\ UNCHANGED <<admins, clients, ws, adm>>

-----------------------------------------------------------------------------
(* POST /v1/sms-submit *)

Otps == {"o1", "o2"}

\* L185-188: the record is appended and saved, and NEW_SMS is broadcast
SmsStart(r, client_id, otp) ==
  /\ NextIdle(SmsIds, r)
  /\ LET t == StartBroadcast([task[r] EXCEPT !.id = client_id, !.otp = otp], "bc_sms")
         f == Fanout(t, ws)
     IN  /\ db' = [load_db EXCEPT !.sms = Append(@, SmsRecord(t))]
         /\ task' = [task EXCEPT ![r] = f.task]
         /\ ws' = f.ws
  /\ UNCHANGED <<admins, clients, adm>>

\* L185-187: save_db raises
SmsWriteFails(r, client_id, otp) ==
  /\ NextIdle(SmsIds, r)
  /\ db' \in FailedWrite
  /\ task' = [task EXCEPT ![r] = WriteFailure([@ EXCEPT !.id = client_id, !.otp = otp])]
  /\ UNCHANGED <<admins, clients, ws, adm>>

-----------------------------------------------------------------------------
(* POST /v1/admin/redirect *)

\* r.target: an absolute URL (starts with "http") or a local page name
Targets == {[http |-> TRUE, s |-> "u"], [http |-> FALSE, s |-> "page"]}

\* L193-194: a local page name gets a leading "/"
RedirectUrl(target) == IF target.http THEN <<target.s>> ELSE <<"/", target.s>>

RedirectMsg(target) == [type |-> "REDIRECT", url |-> RedirectUrl(target)]

\* L193-196: the unicast; send_to_client suspends only when it has a handle
\* to send to (tgt records it), otherwise the endpoint returns at once
RedirectStart(r, client_id, target) ==
  /\ NextIdle(RedirectIds, r)
  /\ ws' = send_to_client(ws, clients, client_id, RedirectMsg(target))
  /\ task' = [task EXCEPT ![r] =
       IF HasClient(clients, client_id)
       THEN [@ EXCEPT !.pc = "redir_ret", !.id = client_id,
                      !.tgt = GetClient(clients, client_id)]
       ELSE [@ EXCEPT !.pc = "done", !.id = client_id, !.res = "ok"]]
  /\ UNCHANGED <<db, admins, clients, adm>>

\* L197
RedirectReturn(r) ==
  /\ task[r].pc = "redir_ret"
  /\ task' = [task EXCEPT ![r].pc = "done", ![r].res = "ok"]
  /\ UNCHANGED <<db, admins, clients, ws, adm>>

-----------------------------------------------------------------------------
(* Direct calls of the exclusion-list functions.  Both run from load_db to *)
(* save_db without an await.  pre records whether the identity was in      *)
(* banned_ids when the call was made.                                      *)

CallArgs == (Ids \cup {None}) \X (Ips \cup {None})

CallRecord(op, client_id, ip) ==
  [IdleTask EXCEPT !.pc = "done", !.res = op, !.id = client_id, !.ip = ip,
                   !.pre = Contains(db.banned_ids, client_id)]

\* L63-67
CallBan(client_id, ip) ==
  /\ db' = ban_client(client_id, ip)
  /\ task' = [task EXCEPT ![CallId] = CallRecord("ban", client_id, ip)]
  /\ UNCHANGED <<admins, clients, ws, adm>>

\* L69-73
CallUnban(client_id, ip) ==
  /\ db' = unban_client(client_id, ip)
  /\ task' = [task EXCEPT ![CallId] = CallRecord("unban", client_id, ip)]
  /\ UNCHANGED <<admins, clients, ws, adm>>

-----------------------------------------------------------------------------
(* Specifications.  Each one is the program restricted to the operations   *)
(* and inputs of one scenario, so that TLC can explore it exhaustively.    *)

\* a ban names an identity
BanArgs == {<<c, None>> : c \in Ids}

\* a ban names an identity or an origin
BanArgsAny == BanArgs \cup {<<None, p>> : p \in Ips}

\* client sessions of any identity from one origin, and identity bans;
\* no admin is connected
NextSession ==
  \/ \E h \in ClientHandles, c \in Ids : ClientStart(h, c, "ip1")
  \/ \E h \in ClientHandles : ClientRejectAccept(h)
  \/ \E h \in ClientHandles : ClientRejectSend(h)
  \/ \E h \in ClientHandles : ClientRejectClose(h)
  \/ \E h \in ClientHandles : ClientRegister(h)
  \/ \E h \in ClientHandles : ClientDisconnect(h)
  \/ \E h \in ClientHandles : PeerClose(h)
  \/ \E r \in BanIds, a \in BanArgs : BanStart(r, a[1], a[2])
  \/ \E r \in BanIds : BanClose(r)

SpecSession == Init /\ [][NextSession]_vars

\* sessions of one identity with bans of it, under the event loop's
\* scheduling: a handler whose awaited call has completed is resumed
NextClose ==
  \/ \E h \in ClientHandles : ClientStart(h, "c1", "ip1")
  \/ \E h \in ClientHandles : ClientRejectAccept(h)
  \/ \E h \in ClientHandles : ClientRejectSend(h)
  \/ \E h \in ClientHandles : ClientRejectClose(h)
  \/ \E h \in ClientHandles : ClientRegister(h)
  \/ \E h \in ClientHandles : ClientReceiveInvalid(h)
  \/ \E h \in ClientHandles : ClientDisconnect(h)
  \/ \E h \in ClientHandles : PeerClose(h)
  \/ \E r \in BanIds : BanStart(r, "c1", None)
  \/ \E r \in BanIds : BanClose(r)

SpecClose ==
  /\ Init /\ [][NextClose]_vars
  /\ WF_vars(\E h \in ClientHandles : ClientDisconnect(h))

\* the first client session relayed to admins that come and go
NextFanout ==
  \/ ClientStart(1, "c1", "ip1")
  \/ ClientRegister(1)
  \/ ClientReceive(1)
  \/ ClientDisconnect(1)
  \/ BroadcastStep(1)
  \/ \E h \in {1} \cup AdminHandles : PeerClose(h)
  \/ \E a \in AdminHandles : AdminConnect(a)
  \/ \E a \in AdminHandles : AdminDisconnect(a)

SpecFanout == Init /\ [][NextFanout]_vars

\* audit submissions of any identity from any origin whose lookup fails,
\* with bans of one identity and of one origin and with admins that connect
GateBans == {<<"c1", None>>, <<None, "ip1">>}

NextGate ==
  \/ \E r \in AuditIds, c \in Ids, p \in Ips : AuditStart(r, c, "ip2", p)
  \/ \E r \in AuditIds : AuditEnrich(r, FALSE)
  \/ \E r \in AuditIds : BroadcastStep(r)
  \/ \E r \in BanIds, a \in GateBans : BanStart(r, a[1], a[2])
  \/ \E a \in AdminHandles : AdminConnect(a)

SpecGate == Init /\ [][NextGate]_vars

\* audit submissions from one origin, with admins that come and go
NextAudit ==
  \/ \E r \in AuditIds, q \in Ips : AuditStart(r, "c1", q, "ip1")
  \/ \E r \in AuditIds, ok \in BOOLEAN : AuditEnrich(r, ok)
  \/ \E r \in AuditIds : BroadcastStep(r)
  \/ \E a \in AdminHandles : PeerClose(a)
  \/ \E a \in AdminHandles : AdminConnect(a)
  \/ \E a \in AdminHandles : AdminDisconnect(a)

SpecAudit == Init /\ [][NextAudit]_vars

\* a client connects, disconnects and, once the server has dealt with the
\* disconnect, reconnects under the same identity; admins come and go
NextReconnect ==
  \/ ClientStart(1, "c1", "ip1")
  \/ task[1].pc = "done" /\ ClientStart(2, "c1", "ip1")
  \/ \E h \in {1, 2} : ClientRegister(h)
  \/ \E h \in {1, 2} : ClientDisconnect(h)
  \/ \E h \in {1, 2} : BroadcastStep(h)
  \/ \E h \in {1, 2} \cup AdminHandles : PeerClose(h)
  \/ \E a \in AdminHandles : AdminConnect(a)
  \/ \E a \in AdminHandles : AdminDisconnect(a)

SpecReconnect == Init /\ [][NextReconnect]_vars

\* the exclusion list under any sequence of ban and unban calls
NextExclusion ==
  \/ \E a \in CallArgs : CallBan(a[1], a[2])
  \/ \E a \in CallArgs : CallUnban(a[1], a[2])

SpecExclusion == Init /\ [][NextExclusion]_vars

\* redirect commands for any identity while the first client session (of
\* c1) and admins come and go
NextRedirect ==
  \/ ClientStart(1, "c1", "ip1")
  \/ ClientRegister(1)
  \/ ClientDisconnect(1)
  \/ BroadcastStep(1)
  \/ PeerClose(1)
  \/ \E a \in AdminHandles : AdminConnect(a)
  \/ \E r \in RedirectIds, c \in Ids, g \in Targets : RedirectStart(r, c, g)
  \/ \E r \in RedirectIds : RedirectReturn(r)

SpecRedirect == Init /\ [][NextRedirect]_vars

\* audit, one-time-code and ban requests whose store write succeeds or
\* fails, with the first client session (of c1), established before the
\* first admin connects
NextWrite ==
  \/ ClientStart(1, "c1", "ip1")
  \/ admins = <<>> /\ ClientRegister(1)
  \/ AdminConnect(MaxClients + 1)
  \/ \E r \in AuditIds : AuditStart(r, "c1", "ip2", "ip1")
  \/ \E r \in AuditIds : AuditEnrich(r, FALSE)
  \/ \E r \in AuditIds : AuditWriteFails(r)
  \/ \E r \in SmsIds : SmsStart(r, "c1", "o1")
  \/ \E r \in SmsIds : SmsWriteFails(r, "c1", "o1")
  \/ \E r \in BanIds : BanStart(r, "c1", None)
  \/ \E r \in BanIds : BanWriteFails(r, "c1", None)
  \/ \E r \in BanIds : BanClose(r)
  \/ \E t \in AuditIds \cup SmsIds : BroadcastStep(t)

SpecWrite == Init /\ [][NextWrite]_vars

\* the first two client sessions, of one identity from one origin, relayed
\* to the first admin, while that origin is banned and unbanned
NextOrigin ==
  \/ \E h \in {1, 2} : ClientStart(h, "c1", "ip1")
  \/ \E h \in {1, 2} : ClientRejectAccept(h)
  \/ \E h \in {1, 2} : ClientRejectSend(h)
  \/ \E h \in {1, 2} : ClientRejectClose(h)
  \/ \E h \in {1, 2} : ClientRegister(h)
  \/ \E h \in {1, 2} : ClientReceive(h)
  \/ \E h \in {1, 2} : ClientDisconnect(h)
  \/ \E h \in {1, 2} : BroadcastStep(h)
  \/ \E h \in {1, 2} : PeerClose(h)
  \/ AdminConnect(MaxClients + 1)
  \/ \E r \in BanIds : BanStart(r, None, "ip1")
  \/ CallUnban(None, "ip1")

SpecOrigin == Init /\ [][NextOrigin]_vars

\* audit and one-time-code submissions of c1 from any origin, suspended in
\* the lookup and in their broadcasts to the first admin, interleaved with
\* bans and unbans of one identity and of one origin
NextStore ==
  \/ \E r \in AuditIds, p \in Ips : AuditStart(r, "c1", "ip2", p)
  \/ \E r \in AuditIds, ok \in BOOLEAN : AuditEnrich(r, ok)
  \/ \E r \in SmsIds : SmsStart(r, "c1", "o1")
  \/ \E t \in AuditIds \cup SmsIds : BroadcastStep(t)
  \/ AdminConnect(MaxClients + 1)
  \/ \E r \in BanIds, a \in GateBans : BanStart(r, a[1], a[2])
  \/ \E a \in GateBans : CallUnban(a[1], a[2])

SpecStore == Init /\ [][NextStore]_vars

-----------------------------------------------------------------------------
(* The whole program *)

Next ==
  \/ \E h \in ClientHandles, c \in Ids, p \in Ips : ClientStart(h, c, p)
  \/ \E h \in ClientHandles : ClientRejectAccept(h)
  \/ \E h \in ClientHandles : ClientRejectSend(h)
  \/ \E h \in ClientHandles : ClientRejectClose(h)
  \/ \E h \in ClientHandles : ClientRegister(h)
  \/ \E h \in ClientHandles : ClientReceive(h)
  \/ \E h \in ClientHandles : ClientReceiveInvalid(h)
  \/ \E h \in ClientHandles : ClientDisconnect(h)
  \/ \E t \in Tasks : BroadcastStep(t)
  \/ \E h \in Handles : PeerClose(h)
  \/ \E a \in AdminHandles : AdminConnect(a)
  \/ \E a \in AdminHandles : AdminDisconnect(a)
  \/ \E r \in AuditIds, c \in Ids, q \in Ips, p \in Ips : AuditStart(r, c, q, p)
  \/ \E r \in AuditIds, ok \in BOOLEAN : AuditEnrich(r, ok)
  \/ \E r \in BanIds, a \in BanArgsAny : BanStart(r, a[1], a[2])
  \/ \E r \in BanIds : BanClose(r)
  \/ \E a \in CallArgs : CallBan(a[1], a[2])
  \/ \E a \in CallArgs : CallUnban(a[1], a[2])
  \/ \E r \in RedirectIds, c \in Ids, g \in Targets : RedirectStart(r, c, g)
  \/ \E r \in RedirectIds : RedirectReturn(r)
  \/ \E r \in AuditIds : AuditWriteFails(r)
  \/ \E r \in SmsIds, c \in Ids, o \in Otps : SmsStart(r, c, o)
  \/ \E r \in SmsIds, c \in Ids, o \in Otps : SmsWriteFails(r, c, o)
  \/ \E r \in BanIds, a \in BanArgsAny : BanWriteFails(r, a[1], a[2])

Spec == Init /\ [][Next]_vars

-----------------------------------------------------------------------------
(* Properties *)

Online(h) == task[h].pc \in {"bc_online", "recv", "bc_event"}

Registered(h) == <<task[h].id, h>> \in clients

OneEntryPerIdentity == \A c \in Ids : Cardinality({p \in clients : p[1] = c}) <= 1

\* the latest connection registered under its identity
Latest(h) ==
  /\ task[h].reg > 0
  /\ \A g \in ClientHandles : task[g].id = task[h].id => task[g].reg <= task[h].reg

\* the step in which the broadcast of task t returns
Returns(t) == task[t].pc \in BcPcs /\ task'[t].pc \notin BcPcs

\* the handles the sends of a returning broadcast failed on: those skipped
\* before and the ones its last turn found closed
Failed(t) ==
  task[t].fail \cup {admins[k] : k \in (task[t].i + 1)..Len(admins)}

\* the CLIENT_STATUS values for an identity among the messages sent to a
StatusLog(a, client_id) ==
  LET IsStatus(m) == m.type = "CLIENT_STATUS" /\ m.client_id = client_id
      log == SelectSeq(ws[a].out, IsStatus)
  IN  [k \in 1..Len(log) |-> log[k].status]

Excluded(client_id, ip) ==
  Contains(db.banned_ids, client_id) \/ Contains(db.banned_ips, ip)

\* an audit request arrives
Submits(r) == task[r].pc = "idle" /\ task'[r].pc # "idle"

\* C1: a connection attempt for an identity that is in banned_ids when the
\* attempt starts is never registered and never online; the only message it
\* is ever sent is one BANNED, it is closed only after that message, and
\* when its handler has returned it has been sent BANNED and is closed.
C1_BannedAttemptRejected ==
  \A h \in ClientHandles :
    task[h].pre =>
      /\ ~Registered(h)
      /\ ~Online(h) /\ task[h].pc \notin {"accept", "bc_offline"}
      /\ ws[h].out \in {<<>>, <<BannedMsg>>}
      /\ ws[h].state = "closed" => ws[h].out = <<BannedMsg>>
      /\ task[h].pc = "done" => ws[h].state = "closed" /\ ws[h].out = <<BannedMsg>>

\* an attempt for a banned identity has been turned away
C1_Witness ==
  \E h \in ClientHandles :
    task[h].pre /\ task[h].pc = "done" /\ ws[h].out = <<BannedMsg>>

\* C2: once a ban of identity I, issued while a session was registered
\* under I, has updated the store, I is in banned_ids; that session, unless
\* its peer closed it, has been sent BANNED, is closed with code 4003 when
\* the ban has returned, and no session is closed with that code without
\* having been sent BANNED; and no attempt for I that started with I banned
\* is registered.
C2_BanClosesOnlineSession ==
  \A r \in BanIds :
    (task[r].pc \in {"ban_close", "done"} /\ task[r].tgt # 0) =>
      LET h == task[r].tgt IN
      /\ Contains(db.banned_ids, task[r].id)
      /\ ws[h].by # "peer" => Contains(ws[h].out, BannedMsg)
      /\ \A g \in ClientHandles :
           ws[g].code = BanCloseCode => Contains(ws[g].out, BannedMsg)
      /\ (task[r].pc = "done" /\ ws[h].by # "peer") =>
           ws[h].state = "closed" /\ ws[h].code = BanCloseCode
      /\ \A g \in ClientHandles :
           (task[g].id = task[r].id /\ task[g].pre) => ~Registered(g)

\* C3: when a broadcast returns, every admin that was registered when it
\* started and is still registered, with its connection open, has been
\* sent the message exactly once, and no admin registered after the start
\* has been sent it.
C3_BroadcastOverSnapshot ==
  [][\A t \in Tasks :
       Returns(t) =>
         /\ \A a \in Range(task[t].snap) \cap Range(admins) :
              ws[a].state = "open" => Count(task[t].sent, a) = 1
         /\ \A a \in Range(task[t].sent) : a \in Range(task[t].snap)]_vars

\* C4: the registry never holds two entries for one identity or one admin
\* handle twice, and the latest session registered under an identity stays
\* in the registry for as long as its connection is open.
C4_RegistryConsistent ==
  /\ OneEntryPerIdentity
  /\ \A a \in AdminHandles : Count(admins, a) <= 1
  /\ \A h \in ClientHandles :
       (Latest(h) /\ Online(h) /\ ws[h].state = "open") => Registered(h)

\* C5: the disconnect handling of a session (unregister and offline
\* broadcast) runs at most once, after it the session is never online
\* again, a handler that has returned after registering has run it once,
\* and every registered session whose connection is closed, by its peer or
\* by a ban, gets it run.
C5_OfflineExactlyOnce ==
  /\ [](\A h \in ClientHandles :
          /\ task[h].offs <= 1
          /\ task[h].offs = 1 => task[h].pc \in {"bc_offline", "done"}
          /\ (task[h].pc = "done" /\ task[h].reg > 0) => task[h].offs = 1
          /\ task[h].pc = "bc_offline" => task[h].offs = 1)
  /\ \A h \in ClientHandles :
       (task[h].reg > 0 /\ ws[h].state = "closed")
         ~> (task[h].offs = 1 /\ task[h].pc = "done")

\* a session closed by a ban and one closed by its peer have both been
\* handled
C5_Witness ==
  \E g, h \in ClientHandles :
    /\ task[g].reg > 0 /\ ws[g].code = BanCloseCode
    /\ task[g].offs = 1 /\ task[g].pc = "done"
    /\ task[h].reg > 0 /\ ws[h].by = "peer"
    /\ task[h].offs = 1 /\ task[h].pc = "done"

\* C6: when an identity has connected, disconnected and reconnected with
\* another handle, every admin connected since before the first connection
\* was registered has been sent its statuses online, offline, online in
\* that order, and the registry never holds two entries for the identity.
C6_ReconnectObserved ==
  /\ OneEntryPerIdentity
  /\ \A g, h \in ClientHandles :
       ( /\ task[g].id = task[h].id
         /\ task[g].reg > 0 /\ task[g].pc = "done"
         /\ task[h].reg > task[g].reg /\ task[h].pc = "recv" ) =>
         \A a \in task[g].wit \cap Range(admins) :
           ws[a].state = "open" =>
             StatusLog(a, task[h].id) = <<"online", "offline", "online">>

\* C7: when a broadcast in which the send to exactly one handle failed
\* returns, every other admin it started with whose connection is open has
\* been sent the message once.
C7_FailedSendIsolated ==
  [][\A t \in Tasks :
       (Returns(t) /\ Cardinality(Failed(t)) = 1) =>
         \A a \in Range(task[t].snap) \ Failed(t) :
           ws[a].state = "open" => Count(task[t].sent, a) = 1]_vars

\* C8: an audit submission whose identity or observed origin is excluded
\* when it arrives is answered 403 in that same step, which leaves the
\* store, the registry and every connection as they were, and the request
\* does nothing afterwards.
C8_ForbiddenAuditDoesNothing ==
  [][\A r \in AuditIds :
       /\ (Submits(r) /\ Excluded(task'[r].id, task'[r].ip)) =>
            /\ task'[r].pc = "done" /\ task'[r].res = "403"
            /\ db' = db /\ ws' = ws /\ admins' = admins /\ clients' = clients
       /\ task[r].res = "403" => task'[r] = task[r]]_vars

\* an audit was refused for its origin alone while an admin was connected
C8_Witness ==
  \E r \in AuditIds :
    /\ task[r].res = "403" /\ task[r].pc = "done"
    /\ Contains(db.banned_ips, task[r].ip)
    /\ ~Contains(db.banned_ids, task[r].id)
    /\ admins # <<>>

\* C9: an audit submission that passed the exclusion check appends, when
\* the lookup has answered or failed, one record with status pending and
\* the observed origin as adresse_ip, and appends nothing in any other
\* step; and when its broadcast returns with the acknowledgement PENDING,
\* every admin registered when the record was appended and still
\* registered with its connection open has been sent NEW_PAYMENT with that
\* record exactly once.
C9_AuditRecordedAndAnnounced ==
  [][\A r \in AuditIds :
       /\ (task[r].pc = "enrich" /\ task'[r].pc # "enrich") =>
            /\ Len(db'.payments) = Len(db.payments) + 1
            /\ SubSeq(db'.payments, 1, Len(db.payments)) = db.payments
            /\ LET rec == db'.payments[Len(db'.payments)]
               IN  /\ rec.status = "pending"
                   /\ rec.client_id = task[r].id
                   /\ rec.adresse_ip = task[r].ip
       /\ (task[r].pc # "enrich" /\ task'[r] # task[r]) =>
            db'.payments = db.payments
       /\ (task[r].pc = "bc_payment" /\ task'[r].pc = "done") =>
            /\ task'[r].res = "PENDING"
            /\ \A a \in Range(task[r].snap) \cap Range(admins) :
                 ws[a].state = "open" =>
                   Count(ws[a].out, PaymentMsg(PaymentRecord(task[r]))) = 1]_vars

\* C10: a registration under an identity leaves exactly one entry for that
\* identity, the one of the new handle: lookup returns the new handle, no
\* handle registered before is retrievable under it, and the registry
\* never holds two entries for one identity.
C10_RegisterReplaces ==
  /\ [][\A h \in ClientHandles :
          (task[h].pc = "accept" /\ task'[h].pc # "accept") =>
            /\ HasClient(clients', task[h].id)
            /\ GetClient(clients', task[h].id) = h
            /\ {p \in clients' : p[1] = task[h].id} = {<<task[h].id, h>>}]_vars
  /\ []OneEntryPerIdentity

\* a second connection has taken the registry entry of a first one that is
\* still open
C10_Witness ==
  \E g, h \in ClientHandles :
    /\ g # h /\ task[g].id = task[h].id
    /\ Online(g) /\ ws[g].state = "open" /\ task[g].reg > 0
    /\ task[h].reg > task[g].reg
    /\ Registered(h) /\ ~Registered(g)

\* C11: a ban of identity I given without an origin leaves banned_ips as it
\* was, sends nothing to and does not close the connection of any session
\* of another identity, and leaves every other identity admissible: an
\* attempt whose identity is not in banned_ids and whose origin is not in
\* banned_ips is admitted.
C11_BanLeavesOthers ==
  [][/\ \A r \in BanIds :
          (task'[r] # task[r] /\ task'[r].ip = None) =>
            /\ db'.banned_ips = db.banned_ips
            /\ \A c \in Ids \ {task'[r].id} :
                 Contains(db'.banned_ids, c) = Contains(db.banned_ids, c)
            /\ \A h \in ClientHandles :
                 (task[h].pc # "idle" /\ task[h].id # task'[r].id) => ws'[h] = ws[h]
     /\ \A h \in ClientHandles :
          (task[h].pc = "idle" /\ task'[h].pc # "idle"
             /\ ~Excluded(task'[h].id, task'[h].ip)) => task'[h].pc = "accept"]_vars

\* identity c1 was banned without an origin while a session of another
\* identity from the same origin was registered: the session of c1 was
\* closed by the ban and the other one is still registered and open
C11_Witness ==
  \E r \in BanIds, g, h \in ClientHandles :
    /\ task[r].pc = "done" /\ task[r].ip = None
    /\ task[g].id = task[r].id /\ ws[g].code = BanCloseCode
    /\ task[h].id # task[r].id /\ task[h].ip = task[g].ip
    /\ {g, h} \subseteq task[r].wit
    /\ Online(h) /\ Registered(h) /\ ws[h].state = "open"
    /\ db.banned_ips = <<>>

\* C12: ban and unban are idempotent on the exclusion list: repeating a ban
\* or an unban just made changes nothing, a ban of what is already listed
\* and an unban of what is not listed leave both lists as they were, for
\* identities and for origins, and after an unban the identity and the
\* origin it named are in neither list, however often they were banned.
C12_BanUnbanIdempotent ==
  [][\A a \in CallArgs :
       LET c == a[1]
           p == a[2]
           listed_id == c # None /\ Contains(db.banned_ids, c)
           listed_ip == p # None /\ Contains(db.banned_ips, p)
       IN  (task'[CallId].id = c /\ task'[CallId].ip = p) =>
             /\ task'[CallId].res = "ban" =>
                  /\ ban_client(c, p)' = db'
                  /\ (c # None => listed_id) /\ (p # None => listed_ip) => db' = db
                  /\ c # None => Count(db'.banned_ids, c) = 1
                  /\ p # None => Count(db'.banned_ips, p) = 1
             /\ task'[CallId].res = "unban" =>
                  /\ unban_client(c, p)' = db'
                  /\ (~listed_id /\ ~listed_ip) => db' = db
                  /\ c # None => ~Contains(db'.banned_ids, c)
                  /\ p # None => ~Contains(db'.banned_ips, p)
                  /\ (c # None /\ p # None) => ~is_banned(c, p)']_vars

\* an identity already in banned_ids has been banned again, together with
\* an origin, while another identity was listed too
C12_Witness ==
  /\ task[CallId].res = "ban" /\ task[CallId].pre
  /\ task[CallId].id # None /\ task[CallId].ip # None
  /\ Len(db.banned_ids) = 2 /\ Count(db.banned_ids, task[CallId].id) = 1

\* C13: a redirect command for an identity that has no registry entry
\* returns the normal result in that same step, and the step sends nothing
\* on any connection and leaves the registry and the store as they were.
C13_RedirectUnknownIsSilent ==
  [][\A r \in RedirectIds :
       (task[r].pc = "idle" /\ task'[r].pc # "idle"
          /\ ~HasClient(clients, task'[r].id)) =>
         /\ task'[r].pc = "done" /\ task'[r].res = "ok"
         /\ ws' = ws /\ db' = db
         /\ clients' = clients /\ admins' = admins]_vars

\* a redirect for an identity without entry has returned while another
\* identity's session and an admin were registered
C13_Witness ==
  \E r \in RedirectIds :
    /\ task[r].pc = "done" /\ task[r].res = "ok" /\ task[r].tgt = 0
    /\ ~HasClient(clients, task[r].id)
    /\ clients # {} /\ admins # <<>>

\* C14: when the store write of an audit, a one-time-code or a ban request
\* fails, the request ends with the failure and not with its
\* acknowledgement, the failing step sends nothing and closes nothing, and
\* the request does nothing afterwards.
C14_WriteFailurePropagates ==
  [][\A r \in AuditIds \cup SmsIds \cup BanIds :
       /\ (task[r].res # "io_error" /\ task'[r].res = "io_error") =>
            /\ task'[r].pc = "done"
            /\ ws' = ws /\ clients' = clients /\ admins' = admins
       /\ task[r].res = "io_error" => task'[r] = task[r]]_vars

\* the write of an audit, of a one-time code and of a ban of a registered,
\* open session have failed with an admin connected, and nothing was sent
C14_Witness ==
  /\ \E r \in AuditIds : task[r].res = "io_error"
  /\ \E r \in SmsIds : task[r].res = "io_error"
  /\ \E r \in BanIds :
       /\ task[r].res = "io_error"
       /\ HasClient(clients, task[r].id)
       /\ ws[GetClient(clients, task[r].id)].state = "open"
       /\ ~Contains(ws[GetClient(clients, task[r].id)].out, BannedMsg)
  /\ \E a \in Range(admins) : ws[a].state = "open" /\ ws[a].out = <<>>

\* the first position of the admin list whose connection is open, 0 if none
FirstOpen == NextOpen(ws, admins, 0)

\* C15: exclusion is evaluated at admission only.  A ban of an origin given
\* without an identity puts the origin in banned_ips and leaves the
\* registry, every connection and every session as they were; a session
\* goes on relaying: the message it takes next is sent as CLIENT_EVENT to
\* the admins, starting with the first one whose connection is open; an
\* attempt that starts from an origin in banned_ips is turned away, one
\* whose identity and origin are in neither list is admitted, and an unban
\* of the origin takes it out of banned_ips.
C15_ExclusionAtAdmissionOnly ==
  [][/\ \A r \in BanIds :
          (task[r].pc = "idle" /\ task'[r].res = "banned" /\ task'[r].id = None) =>
            /\ Contains(db'.banned_ips, task'[r].ip)
            /\ clients' = clients /\ ws' = ws /\ admins' = admins
            /\ \A h \in ClientHandles : task'[h] = task[h]
     /\ \A h \in ClientHandles :
          /\ (task[h].pc = "idle" /\ task'[h].pc # "idle") =>
               /\ Contains(db.banned_ips, task'[h].ip) => task'[h].pc = "rej_accept"
               /\ ~Excluded(task'[h].id, task'[h].ip) => task'[h].pc = "accept"
          /\ task[h].pc \in {"rej_accept", "rej_send", "rej_close"} =>
               ~Registered(h) /\ task'[h].pc \in {"rej_accept", "rej_send", "rej_close", "done"}
          /\ task'[h].n = task[h].n + 1 =>
               IF FirstOpen = 0
               THEN ws' = ws /\ task'[h].pc = "recv"
               ELSE /\ task'[h].pc = "bc_event"
                    /\ ws'[admins[FirstOpen]].out =
                         Append(ws[admins[FirstOpen]].out,
                                EventMsg(task[h].id, Inbound(task[h].n + 1)))
     /\ \A p \in Ips :
          (task'[CallId] # task[CallId] /\ task'[CallId].res = "unban"
             /\ task'[CallId].ip = p) => ~Contains(db'.banned_ips, p)]_vars

\* the origin of a registered session was banned; afterwards the session
\* relayed a message to the admin and is still registered and open, and
\* another attempt from that origin was turned away
C15_Witness ==
  \E r \in BanIds, h, g \in ClientHandles :
    /\ task[r].pc = "done" /\ task[r].id = None
    /\ Contains(db.banned_ips, task[r].ip)
    /\ h \in task[r].wit /\ task[h].ip = task[r].ip
    /\ task[r].n = 0 /\ task[h].n > 0 /\ task[h].pc = "recv"
    /\ Registered(h) /\ ws[h].state = "open"
    /\ \E a \in Range(admins) :
         Contains(ws[a].out, EventMsg(task[h].id, Inbound(task[h].n)))
    /\ g # h /\ task[g].ip = task[r].ip
    /\ task[g].pc = "done" /\ ws[g].out = <<BannedMsg>>

\* the messages about an identity among those sent to admin a, in order
SessionLog(a, client_id) ==
  LET About(m) == m.type \in {"CLIENT_STATUS", "CLIENT_EVENT"} /\ m.client_id = client_id
  IN  SelectSeq(ws[a].out, About)

\* what a session that has ended should have produced
SessionMessages(h) ==
  <<StatusMsg(task[h].id, "online")>>
    \o [k \in 1..task[h].n |-> EventMsg(task[h].id, Inbound(k))]
    \o <<StatusMsg(task[h].id, "offline")>>

\* C16: when a client session has ended, every admin that was registered
\* when the session was registered and still is, with its connection open,
\* has been sent exactly: the online status, one CLIENT_EVENT per inbound
\* message in the order they came, and the offline status last.
C16_SessionFifo ==
  \A h \in ClientHandles :
    (task[h].pc = "done" /\ task[h].reg > 0) =>
      \A a \in task[h].wit \cap Range(admins) :
        ws[a].state = "open" => SessionLog(a, task[h].id) = SessionMessages(h)

\* C17: no audit record is appended and no NEW_PAYMENT is sent for a
\* submission whose identity or origin is in the exclusion list at the
\* moment of the append, also when the ban came while the submission was
\* suspended in the enrichment call.
C17_NoRecordForExcluded ==
  [][\A r \in AuditIds :
       (task[r].pc = "enrich" /\ task'[r].pc # "enrich"
          /\ Excluded(task[r].id, task[r].ip)) =>
         /\ db'.payments = db.payments
         /\ ws' = ws /\ task'[r].pc = "done"]_vars

\* C18: once a ban of identity I has returned and while I is in banned_ids,
\* no live session is registered under I, also when an attempt for I had
\* passed its exclusion check before the ban and completed its handshake
\* after it.
C18_NoSessionAfterBan ==
  \A r \in BanIds :
    ( /\ task[r].pc = "done" /\ task[r].res = "banned" /\ task[r].id # None
      /\ Contains(db.banned_ids, task[r].id) ) =>
      \A h \in ClientHandles :
        task[h].id = task[r].id => ~(Registered(h) /\ ws[h].state = "open")

\* the requests that have written their record
Wrote(S) == {r \in S : task[r].pc \in {"bc_payment", "bc_sms", "done"}
                         /\ task[r].res \notin {"403", "io_error"}}

\* C19: no store update is lost.  Every step that writes the store changes
\* only what its operation is about: an append keeps every earlier record
\* and both exclusion lists, a ban or an unban keeps the records and every
\* other entry of the lists; so the store holds one record for each audit
\* and one-time-code submission that got past its write, and a ban's
\* identity and origin are listed, an unban's are not, when it completes.
C19_NoLostUpdate ==
  /\ [](/\ Len(db.payments) = Cardinality(Wrote(AuditIds))
        /\ \A r \in Wrote(AuditIds) : Contains(db.payments, PaymentRecord(task[r]))
        /\ Len(db.sms) = Cardinality(Wrote(SmsIds))
        /\ \A r \in Wrote(SmsIds) : Contains(db.sms, SmsRecord(task[r])))
  /\ [][/\ SubSeq(db'.payments, 1, Len(db.payments)) = db.payments
        /\ SubSeq(db'.sms, 1, Len(db.sms)) = db.sms
        /\ \A r \in AuditIds \cup SmsIds :
             (task'[r] # task[r]) =>
               (db'.banned_ids = db.banned_ids /\ db'.banned_ips = db.banned_ips)
        /\ \A r \in BanIds :
             (task[r].pc = "idle" /\ task'[r].pc # "idle") =>
               /\ (task'[r].id # None) => Contains(db'.banned_ids, task'[r].id)
               /\ (task'[r].ip # None) => Contains(db'.banned_ips, task'[r].ip)
               /\ Range(db.banned_ids) \subseteq Range(db'.banned_ids)
               /\ Range(db.banned_ips) \subseteq Range(db'.banned_ips)
               /\ db'.payments = db.payments /\ db'.sms = db.sms
        /\ ( /\ task'[CallId].res = "unban" /\ db' # db
             /\ \A r \in Tasks \ {CallId} : task'[r] = task[r] ) =>
               /\ Range(db'.banned_ids) = Range(db.banned_ids) \ {task'[CallId].id}
               /\ Range(db'.banned_ips) = Range(db.banned_ips) \ {task'[CallId].ip}
               /\ db'.payments = db.payments /\ db'.sms = db.sms]_vars

\* with an audit suspended in its broadcast, a one-time code was recorded
\* and an origin banned, then unbanned: both records are in the store
C19_Witness ==
  /\ \E r \in AuditIds : task[r].pc = "bc_payment" /\ task[r].enr
  /\ \E r \in SmsIds : task[r].pc = "done" /\ task[r].res = "success"
  /\ \E r \in BanIds : task[r].pc = "done" /\ task[r].ip # None
                          /\ ~Contains(db.banned_ips, task[r].ip)
  /\ task[CallId].res = "unban"
  /\ Len(db.payments) = 1 /\ Len(db.sms) = 1

Rejecting == {"rej_accept", "rej_send", "rej_close"}

\* C20: a connection attempt that is turned away changes nothing else: every
\* step of its handler leaves the registry, the admin list and the store
\* as they were and sends nothing on any other connection, so no admin is
\* told about it and a registered session of the same identity stays
\* registered under its own handle.
C20_RejectionChangesNothingElse ==
  [][\A h \in ClientHandles :
       (task'[h] # task[h] /\ (task[h].pc \in Rejecting \/ task'[h].pc \in Rejecting)) =>
         /\ clients' = clients /\ admins' = admins /\ db' = db
         /\ \A g \in Handles \ {h} : ws'[g] = ws[g]
         /\ \A t \in Tasks \ {h} : task'[t] = task[t]]_vars

\* an attempt was turned away while a session of the same identity was
\* registered: the session still is, and the admin was sent nothing but
\* that session's online status
C20_Witness ==
  \E g, h \in ClientHandles :
    /\ g # h /\ task[g].id = task[h].id
    /\ task[g].reg > 0 /\ Registered(g) /\ ws[g].state = "open" /\ task[g].pc = "recv"
    /\ task[h].reg = 0 /\ task[h].pc = "done" /\ ws[h].out = <<BannedMsg>>
    /\ ws[h].code = NormalCloseCode
    /\ \E a \in Range(admins) :
         task[g].wit = {a} /\ ws[a].out = <<StatusMsg(task[g].id, "online")>>

====
